---- MODULE Spec2Model ----
(***************************************************************************)
(* A model of the static-web unikernel server (src/src/main.rs): one       *)
(* dispatcher thread that binds a listener and accepts connections in a    *)
(* loop, and one detached handler thread per accepted connection that      *)
(* performs one read, builds the statistics page, performs one write and   *)
(* drops the stream.                                                       *)
(***************************************************************************)
EXTENDS Integers, Sequences, FiniteSets, TLC

(* ---------------------------------------------------------------------- *)
(* Bounds of the model.                                                    *)
(* ---------------------------------------------------------------------- *)

\* Number of connections the bounded run accepts (the thread capacity).
MaxConns == 2

\* Number of failed accept attempts the bounded run goes through.
MaxAcceptErrs == 1

\* Size of the read buffer: `[0u8; 4096]` in handle_read, scaled down.
BufSize == 3

\* Values sysinfo may return for total_memory() and used_memory(): every
\* number of decimal digits up to ten.
MemValues == {0, 9, 10, 99, 100, 4096, 16777216, 2147483647}

\* The <<total_memory(), used_memory()>> samples the handlers of the
\* concurrent runs draw from.
Snapshots == {<<0, 0>>, <<10, 10>>}

Conns == 1..MaxConns

(* ---------------------------------------------------------------------- *)
(* Bytes and text.                                                         *)
(* ---------------------------------------------------------------------- *)

\* U+FFFD, the character String::from_utf8_lossy substitutes.
ReplacementChar == 65533

Spaces(n) == [i \in 1..n |-> 32]

Zeros(n) == [i \in 1..n |-> 0]

\* The byte sequences a single read may place into the buffer when the
\* client has sent data: a well-formed two-byte character (U+00E9), a
\* truncated two-byte character (malformed UTF-8), and an ASCII request
\* that fills the whole buffer.
RxSet == {<<195, 169>>, <<195>>, [i \in 1..BufSize |-> 71]}

IsContinuation(b) == b >= 128 /\ b <= 191

IsLead2(b) == b >= 194 /\ b <= 223

\* String::from_utf8_lossy on byte sequences made of ASCII bytes, two-byte
\* leads and continuation bytes: a well-formed sequence decodes to its code
\* point, every other byte to U+FFFD.
RECURSIVE Utf8Lossy(_)
Utf8Lossy(bytes) ==
    IF bytes = <<>> THEN <<>>
    ELSE LET b == Head(bytes) IN
         IF b < 128 THEN <<b>> \o Utf8Lossy(Tail(bytes))
         ELSE IF IsLead2(b) /\ Len(bytes) >= 2 /\ IsContinuation(bytes[2])
              THEN <<(b - 192) * 64 + (bytes[2] - 128)>>
                   \o Utf8Lossy(Tail(Tail(bytes)))
              ELSE <<ReplacementChar>> \o Utf8Lossy(Tail(bytes))

\* `{}` applied to an unsigned integer: its decimal digits, no padding.
RECURSIVE Dec(_)
Dec(n) ==
    IF n < 10 THEN <<48 + n>>
    ELSE Dec(n \div 10) \o <<48 + (n % 10)>>

(* ---------------------------------------------------------------------- *)
(* The response: handle_write, lines 30-58.                                *)
(* ---------------------------------------------------------------------- *)

BodyHead ==
    (* line 31:  *)
       <<10>>
    (* line 32: <html> *)
    \o Spaces(12) \o <<60, 104, 116, 109, 108, 62>> \o <<10>>
    (* line 33: <head> *)
    \o Spaces(16) \o <<60, 104, 101, 97, 100, 62>> \o <<10>>
    (* line 34: <meta charset="UTF-8"> *)
    \o Spaces(20) \o <<60, 109, 101, 116, 97, 32, 99, 104, 97, 114, 115, 101, 116, 61, 34, 85, 84, 70, 45, 56, 34, 62>> \o <<10>>
    (* line 35: <title>Unikernel Stats</title> *)
    \o Spaces(20) \o <<60, 116, 105, 116, 108, 101, 62, 85, 110, 105, 107, 101, 114, 110, 101, 108, 32, 83, 116, 97, 116, 115, 60, 47, 116, 105, 116, 108, 101, 62>> \o <<10>>
    (* line 36: </head> *)
    \o Spaces(16) \o <<60, 47, 104, 101, 97, 100, 62>> \o <<10>>
    (* line 37: <body> *)
    \o Spaces(16) \o <<60, 98, 111, 100, 121, 62>> \o <<10>>
    (* line 38: <h1>Hello, Unikernel World!</h1> *)
    \o Spaces(20) \o <<60, 104, 49, 62, 72, 101, 108, 108, 111, 44, 32, 85, 110, 105, 107, 101, 114, 110, 101, 108, 32, 87, 111, 114, 108, 100, 33, 60, 47, 104, 49, 62>> \o <<10>>
    (* line 39: <p>Here are some system stats:</p> *)
    \o Spaces(20) \o <<60, 112, 62, 72, 101, 114, 101, 32, 97, 114, 101, 32, 115, 111, 109, 101, 32, 115, 121, 115, 116, 101, 109, 32, 115, 116, 97, 116, 115, 58, 60, 47, 112, 62>> \o <<10>>
    (* line 40: <ul> *)
    \o Spaces(20) \o <<60, 117, 108, 62>> \o <<10>>
    (* line 41: <li><strong>Total Memory:</strong> *)
    \o Spaces(24) \o <<60, 108, 105, 62, 60, 115, 116, 114, 111, 110, 103, 62, 84, 111, 116, 97, 108, 32, 77, 101, 109, 111, 114, 121, 58, 60, 47, 115, 116, 114, 111, 110, 103, 62>> \o Spaces(1)
BodyMid ==
    (* line 41: kB</li> *)
       Spaces(1) \o <<107, 66, 60, 47, 108, 105, 62>> \o <<10>>
    (* line 42: <li><strong>Used Memory:</strong> *)
    \o Spaces(24) \o <<60, 108, 105, 62, 60, 115, 116, 114, 111, 110, 103, 62, 85, 115, 101, 100, 32, 77, 101, 109, 111, 114, 121, 58, 60, 47, 115, 116, 114, 111, 110, 103, 62>> \o Spaces(1)
BodyTail ==
    (* line 42: kB</li> *)
       Spaces(1) \o <<107, 66, 60, 47, 108, 105, 62>> \o Spaces(24) \o <<10>>
    (* line 43: </ul> *)
    \o Spaces(20) \o <<60, 47, 117, 108, 62>> \o <<10>>
    (* line 44: </body> *)
    \o Spaces(16) \o <<60, 47, 98, 111, 100, 121, 62>> \o <<10>>
    (* line 45: </html> *)
    \o Spaces(12) \o <<60, 47, 104, 116, 109, 108, 62>> \o <<10>>
    (* line 46:  *)
    \o Spaces(8)
StatusLine ==
    (* HTTP/1.1 200 OK *)
    <<72, 84, 84, 80, 47, 49, 46, 49, 32, 50, 48, 48, 32, 79, 75, 13, 10>>
ContentTypeHeader ==
    (* Content-Type: text/html; charset=UTF-8 *)
    <<67, 111, 110, 116, 101, 110, 116, 45, 84, 121, 112, 101, 58, 32, 116, 101, 120, 116, 47, 104, 116, 109, 108, 59, 32, 99, 104, 97, 114, 115, 101, 116, 61, 85, 84, 70, 45, 56, 13, 10>>
ContentLengthName ==
    (* Content-Length: *)
    <<67, 111, 110, 116, 101, 110, 116, 45, 76, 101, 110, 103, 116, 104, 58, 32>>

\* response_body, lines 30-48.
ResponseBody(total_mem, used_mem) ==
    BodyHead \o Dec(total_mem) \o BodyMid \o Dec(used_mem) \o BodyTail

\* Mutant of Response: Content-Length is the length of the body template
\* with one-digit values.
ResponseFixedLength(total_mem, used_mem) ==
    StatusLine \o ContentTypeHeader
    \o ContentLengthName \o Dec(Len(ResponseBody(0, 0))) \o <<13, 10>>
    \o <<13, 10>>
    \o ResponseBody(total_mem, used_mem)

\* response, lines 50-58: a `\` at the end of a line of the format string
\* skips the line break and the indentation that follows it.
Response(total_mem, used_mem) ==
    LET response_body == ResponseBody(total_mem, used_mem) IN
        StatusLine \o ContentTypeHeader
        \o ContentLengthName \o Dec(Len(response_body)) \o <<13, 10>>
        \o <<13, 10>>
        \o response_body

\* What stream.write may return for a buffer of len bytes: Ok(n) with n up
\* to len (fewer than len is a short write).
WriteCounts(len) == {1, len - 1, len}

(* ---------------------------------------------------------------------- *)
(* State.                                                                  *)
(* ---------------------------------------------------------------------- *)

VARIABLES
    mainpc,      \* the dispatcher: "bind", "accept" (in the loop), "exited"
    listener,    \* the listening socket: "none" or "listening"
    accepted,    \* number of connections accepted so far
    acceptErrs,  \* number of "Unable to connect" lines printed
    lastAccept,  \* the latest item of listener.incoming(): "none", "ok", "err"
    spawned,     \* number of threads started by thread::spawn
    handlers,    \* per connection: the threads that run handle_client on it
    users,       \* per connection: the threads that have read, written or
                 \* dropped its TcpStream
    pc,          \* per connection: "none", "read", "write", "send", "closed"
    client,      \* per connection, the peer: "silent", "sent", "shut", "reset"
    open,        \* per connection: the TcpStream has not been dropped
    reads,       \* per connection: calls of stream.read
    readRes,     \* per connection: "none", "ok", "err"
    nread,       \* per connection: n of Ok(n) returned by stream.read
    buf,         \* per connection: buf of handle_read
    req_str,     \* per connection: req_str of handle_read, as printed
    console,     \* per connection: the kind of the last line its handler printed
    sampled,     \* per connection: times its handler has sampled sysinfo
    snap,        \* per connection: <<total_mem, used_mem>> of handle_write
    response,    \* per connection: response of handle_write
    writes,      \* per connection: calls of stream.write
    writeRes,    \* per connection: "none", "ok", "err"
    delivered    \* per connection: what stream.write passed on to the peer:
                 \* "none", "partial", "complete"

\* The main thread; the threads started by thread::spawn are 1, 2, ...
MainThread == 0

mainVars == <<mainpc, listener, accepted, acceptErrs, lastAccept, spawned>>

ownVars == <<handlers, users>>

readVars == <<reads, readRes, nread, buf, req_str>>

writeVars == <<sampled, snap, response, writes, writeRes, delivered>>

vars == <<mainVars, ownVars, pc, client, open, readVars, console, writeVars>>

Init ==
    /\ mainpc = "bind"
    /\ listener = "none"
    /\ accepted = 0
    /\ acceptErrs = 0
    /\ lastAccept = "none"
    /\ spawned = 0
    /\ handlers = [c \in Conns |-> {}]
    /\ users = [c \in Conns |-> {}]
    /\ pc = [c \in Conns |-> "none"]
    /\ client = [c \in Conns |-> "silent"]
    /\ open = [c \in Conns |-> FALSE]
    /\ reads = [c \in Conns |-> 0]
    /\ readRes = [c \in Conns |-> "none"]
    /\ nread = [c \in Conns |-> 0]
    /\ buf = [c \in Conns |-> <<>>]
    /\ req_str = [c \in Conns |-> <<>>]
    /\ console = [c \in Conns |-> "none"]
    /\ sampled = [c \in Conns |-> 0]
    /\ snap = [c \in Conns |-> <<>>]
    /\ response = [c \in Conns |-> <<>>]
    /\ writes = [c \in Conns |-> 0]
    /\ writeRes = [c \in Conns |-> "none"]
    /\ delivered = [c \in Conns |-> "none"]

(* ---------------------------------------------------------------------- *)
(* The dispatcher: main.                                                   *)
(* ---------------------------------------------------------------------- *)

\* TcpListener::bind(..) returns Ok: the banner is printed and the loop
\* is entered.
BindOk ==
    /\ mainpc = "bind"
    /\ listener' = "listening"
    /\ mainpc' = "accept"
    /\ UNCHANGED <<accepted, acceptErrs, lastAccept, spawned, ownVars, pc,
                   client, open, readVars, console, writeVars>>

\* Mutant of BindFail: the bind error is ignored and the loop is entered.
BindFailIgnored ==
    /\ mainpc = "bind"
    /\ mainpc' = "accept"
    /\ UNCHANGED <<listener, accepted, acceptErrs, lastAccept, spawned,
                   ownVars, pc, client, open, readVars, console, writeVars>>

\* TcpListener::bind(..) returns Err: unwrap() panics in the main thread
\* and the process ends.
BindFail ==
    /\ mainpc = "bind"
    /\ mainpc' = "exited"
    /\ UNCHANGED <<listener, accepted, acceptErrs, lastAccept, spawned,
                   ownVars, pc, client, open, readVars, console, writeVars>>

\* Mutant of AcceptOk: the dispatcher joins each handler thread before it
\* accepts again.
AcceptOkJoined ==
    /\ mainpc = "accept"
    /\ listener = "listening"
    /\ accepted < MaxConns
    /\ \A d \in Conns : pc[d] \in {"none", "closed"}
    /\ LET c == accepted + 1 IN
        /\ accepted' = c
        /\ pc' = [pc EXCEPT ![c] = "read"]
        /\ open' = [open EXCEPT ![c] = TRUE]
        /\ handlers' = [handlers EXCEPT ![c] = {spawned + 1}]
    /\ spawned' = spawned + 1
    /\ lastAccept' = "ok"
    /\ UNCHANGED <<mainpc, listener, acceptErrs, users, client, readVars,
                   console, writeVars>>

\* Mutant of AcceptOk: the dispatcher hands a handle of the stream to the
\* thread and goes on using the stream itself.
AcceptOkKeepsStream ==
    /\ mainpc = "accept"
    /\ listener = "listening"
    /\ accepted < MaxConns
    /\ LET c == accepted + 1 IN
        /\ accepted' = c
        /\ pc' = [pc EXCEPT ![c] = "read"]
        /\ open' = [open EXCEPT ![c] = TRUE]
        /\ handlers' = [handlers EXCEPT ![c] = {spawned + 1}]
        /\ users' = [users EXCEPT ![c] = {MainThread}]
    /\ spawned' = spawned + 1
    /\ lastAccept' = "ok"
    /\ UNCHANGED <<mainpc, listener, acceptErrs, client, readVars, console,
                   writeVars>>

\* incoming() yields Ok(stream): thread::spawn starts handle_client on it
\* and the loop goes on without joining the thread.
AcceptOk ==
    /\ mainpc = "accept"
    /\ listener = "listening"
    /\ accepted < MaxConns
    /\ LET c == accepted + 1 IN
        /\ accepted' = c
        /\ pc' = [pc EXCEPT ![c] = "read"]
        /\ open' = [open EXCEPT ![c] = TRUE]
        /\ handlers' = [handlers EXCEPT ![c] = {spawned + 1}]
    /\ spawned' = spawned + 1
    /\ lastAccept' = "ok"
    /\ UNCHANGED <<mainpc, listener, acceptErrs, users, client, readVars,
                   console, writeVars>>

\* Mutant of AcceptErr: a failed accept ends the loop and closes the
\* listener.
AcceptErrBreaks ==
    /\ mainpc = "accept"
    /\ listener = "listening"
    /\ acceptErrs < MaxAcceptErrs
    /\ acceptErrs' = acceptErrs + 1
    /\ lastAccept' = "err"
    /\ mainpc' = "exited"
    /\ listener' = "none"
    /\ UNCHANGED <<accepted, spawned, ownVars, pc, client, open, readVars,
                   console, writeVars>>

\* incoming() yields Err(e): "Unable to connect" is printed and the loop
\* goes on.
AcceptErr ==
    /\ mainpc = "accept"
    /\ listener = "listening"
    /\ acceptErrs < MaxAcceptErrs
    /\ acceptErrs' = acceptErrs + 1
    /\ lastAccept' = "err"
    /\ UNCHANGED <<mainpc, listener, accepted, spawned, ownVars, pc, client,
                   open, readVars, console, writeVars>>

(* ---------------------------------------------------------------------- *)
(* The peer of a connection.                                               *)
(* ---------------------------------------------------------------------- *)

ClientStep(c, from, to) ==
    /\ pc[c] = "read"
    /\ client[c] \in from
    /\ client' = [client EXCEPT ![c] = to]
    /\ UNCHANGED <<mainVars, ownVars, pc, open, readVars, console, writeVars>>

\* The peer sends request bytes.
ClientSend(c) == ClientStep(c, {"silent"}, "sent")

\* The peer half-closes its write side without sending anything.
ClientShutdown(c) == ClientStep(c, {"silent"}, "shut")

\* The peer resets the connection.
ClientReset(c) == ClientStep(c, {"silent", "sent", "shut"}, "reset")

(* ---------------------------------------------------------------------- *)
(* The handler of a connection: handle_client.                             *)
(* ---------------------------------------------------------------------- *)

\* An operation on the TcpStream of connection c, made by the thread that
\* runs handle_client on it: the stream was moved into that thread's
\* closure.
UsesStream(c) ==
    /\ users' = [users EXCEPT ![c] = @ \cup handlers[c]]
    /\ UNCHANGED handlers

\* The outcome of the one stream.read(&mut buf): blocked while the peer is
\* silent, Ok(n) with the n bytes received, Ok(0) at end of stream, Err on
\* a reset connection.
ReadOutcomes(c) ==
    CASE client[c] = "sent"  -> {[res |-> "ok", data |-> d] : d \in RxSet}
      [] client[c] = "shut"  -> {[res |-> "ok", data |-> <<>>]}
      [] client[c] = "reset" -> {[res |-> "err", data |-> <<>>]}
      [] OTHER               -> {}

\* What one outcome r of stream.read leaves in the locals of handle_read and
\* on the console: buf starts as BufSize zero bytes, read fills its first n
\* bytes, and on Ok(_) the whole of buf is decoded and printed; on Err the
\* error is printed.
ReadEffect(c, r) ==
    LET n == Len(r.data)
        filled == r.data \o Zeros(BufSize - n)
    IN  /\ buf' = [buf EXCEPT ![c] = filled]
        /\ nread' = [nread EXCEPT ![c] = n]
        /\ readRes' = [readRes EXCEPT ![c] = r.res]
        /\ req_str' = [req_str EXCEPT ![c] =
               IF r.res = "ok" THEN Utf8Lossy(filled) ELSE <<>>]
        /\ console' = [console EXCEPT ![c] =
               IF r.res = "ok" THEN "request" ELSE "read_error"]

\* Mutant of HandleRead: a read error ends the handler (the stream is
\* dropped without a write phase).
HandleReadReturnsOnErr(c) ==
    /\ pc[c] = "read"
    /\ \E r \in ReadOutcomes(c) :
        /\ ReadEffect(c, r)
        /\ pc' = [pc EXCEPT ![c] = IF r.res = "err" THEN "closed" ELSE "write"]
        /\ open' = [open EXCEPT ![c] = (r.res # "err")]
    /\ reads' = [reads EXCEPT ![c] = @ + 1]
    /\ UsesStream(c)
    /\ UNCHANGED <<mainVars, client, writeVars>>

\* Mutant of HandleRead: a read error takes the whole process down.
HandleReadExitsOnErr(c) ==
    /\ pc[c] = "read"
    /\ \E r \in ReadOutcomes(c) :
        /\ ReadEffect(c, r)
        /\ mainpc' = IF r.res = "err" THEN "exited" ELSE mainpc
    /\ reads' = [reads EXCEPT ![c] = @ + 1]
    /\ UsesStream(c)
    /\ pc' = [pc EXCEPT ![c] = "write"]
    /\ UNCHANGED <<listener, accepted, acceptErrs, lastAccept, spawned,
                   client, open, writeVars>>

\* Mutant of HandleRead: a read that did not fill the buffer is followed
\* by another read.
HandleReadDrains(c) ==
    /\ pc[c] = "read"
    /\ \E r \in ReadOutcomes(c) :
        /\ ReadEffect(c, r)
        /\ pc' = [pc EXCEPT ![c] =
               IF r.res = "ok" /\ Len(r.data) > 0 /\ Len(r.data) < BufSize
               THEN "read" ELSE "write"]
    /\ reads' = [reads EXCEPT ![c] = @ + 1]
    /\ UsesStream(c)
    /\ UNCHANGED <<mainVars, client, open, writeVars>>

\* handle_read, then the return into handle_client, which goes on to
\* handle_write whatever the read gave. The locals are shown as they are
\* when handle_read returns, until the write phase starts.
HandleRead(c) ==
    /\ pc[c] = "read"
    /\ \E r \in ReadOutcomes(c) : ReadEffect(c, r)
    /\ reads' = [reads EXCEPT ![c] = @ + 1]
    /\ UsesStream(c)
    /\ pc' = [pc EXCEPT ![c] = "write"]
    /\ UNCHANGED <<mainVars, client, open, writeVars>>

\* Mutant of HandleWriteBuild: a failed read is answered with status 400.
HandleWriteBuildStatusByRead(c, samples) ==
    /\ pc[c] = "write"
    /\ \E s \in samples :
        /\ snap' = [snap EXCEPT ![c] = s]
        /\ response' = [response EXCEPT ![c] =
               IF readRes[c] = "err"
               THEN <<72, 84, 84, 80, 47, 49, 46, 49, 32, 52, 48, 48>>
                    \o SubSeq(Response(s[1], s[2]), 13,
                              Len(Response(s[1], s[2])))
               ELSE Response(s[1], s[2])]
    /\ buf' = [buf EXCEPT ![c] = <<>>]
    /\ req_str' = [req_str EXCEPT ![c] = <<>>]
    /\ nread' = [nread EXCEPT ![c] = 0]
    /\ sampled' = [sampled EXCEPT ![c] = @ + 1]
    /\ pc' = [pc EXCEPT ![c] = "send"]
    /\ UNCHANGED <<mainVars, ownVars, client, open, reads, readRes, console,
                   writes, writeRes, delivered>>

\* Mutant of HandleWriteBuild: a snapshot that another handler holds is
\* used again instead of a fresh sample.
HandleWriteBuildCached(c, samples) ==
    /\ pc[c] = "write"
    /\ LET cached == {snap[d] : d \in {e \in Conns \ {c} : snap[e] # <<>>}} IN
        IF cached # {}
        THEN /\ \E s \in cached :
                  /\ snap' = [snap EXCEPT ![c] = s]
                  /\ response' = [response EXCEPT ![c] = Response(s[1], s[2])]
             /\ UNCHANGED sampled
        ELSE /\ \E s \in samples :
                  /\ snap' = [snap EXCEPT ![c] = s]
                  /\ response' = [response EXCEPT ![c] = Response(s[1], s[2])]
             /\ sampled' = [sampled EXCEPT ![c] = @ + 1]
    /\ buf' = [buf EXCEPT ![c] = <<>>]
    /\ req_str' = [req_str EXCEPT ![c] = <<>>]
    /\ nread' = [nread EXCEPT ![c] = 0]
    /\ pc' = [pc EXCEPT ![c] = "send"]
    /\ UNCHANGED <<mainVars, ownVars, client, open, reads, readRes, console,
                   writes, writeRes, delivered>>

\* handle_write, lines 20-58: the statistics are sampled (one of samples)
\* and the response is built from them alone.
HandleWriteBuild(c, samples) ==
    /\ pc[c] = "write"
    /\ \E s \in samples :
        /\ snap' = [snap EXCEPT ![c] = s]
        /\ response' = [response EXCEPT ![c] = Response(s[1], s[2])]
    /\ buf' = [buf EXCEPT ![c] = <<>>]
    /\ req_str' = [req_str EXCEPT ![c] = <<>>]
    /\ nread' = [nread EXCEPT ![c] = 0]
    /\ sampled' = [sampled EXCEPT ![c] = @ + 1]
    /\ pc' = [pc EXCEPT ![c] = "send"]
    /\ UNCHANGED <<mainVars, ownVars, client, open, reads, readRes, console,
                   writes, writeRes, delivered>>

\* Mutant of HandleWriteSend: after a failed write the stream is kept.
HandleWriteSendLeaksOnErr(c) ==
    /\ pc[c] = "send"
    /\ \/ \E n \in WriteCounts(Len(response[c])) :
            /\ writeRes' = [writeRes EXCEPT ![c] = "ok"]
            /\ delivered' = [delivered EXCEPT ![c] =
                   IF n = Len(response[c]) THEN "complete" ELSE "partial"]
            /\ console' = [console EXCEPT ![c] = "sent"]
            /\ open' = [open EXCEPT ![c] = FALSE]
       \/ /\ writeRes' = [writeRes EXCEPT ![c] = "err"]
          /\ console' = [console EXCEPT ![c] = "write_error"]
          /\ UNCHANGED <<delivered, open>>
    /\ writes' = [writes EXCEPT ![c] = @ + 1]
    /\ UsesStream(c)
    /\ UNCHANGED sampled
    /\ snap' = [snap EXCEPT ![c] = <<>>]
    /\ response' = [response EXCEPT ![c] = <<>>]
    /\ pc' = [pc EXCEPT ![c] = "closed"]
    /\ UNCHANGED <<mainVars, client, readVars>>

\* Mutant of HandleWriteSend: a short write is followed by another write
\* of the rest.
HandleWriteSendRetriesShort(c) ==
    /\ pc[c] = "send"
    /\ \/ \E n \in WriteCounts(Len(response[c])) :
            /\ writeRes' = [writeRes EXCEPT ![c] = "ok"]
            /\ delivered' = [delivered EXCEPT ![c] =
                   IF n = Len(response[c]) THEN "complete" ELSE "partial"]
            /\ console' = [console EXCEPT ![c] = "sent"]
            /\ IF n = Len(response[c])
               THEN /\ pc' = [pc EXCEPT ![c] = "closed"]
                    /\ open' = [open EXCEPT ![c] = FALSE]
                    /\ snap' = [snap EXCEPT ![c] = <<>>]
                    /\ response' = [response EXCEPT ![c] = <<>>]
               ELSE UNCHANGED <<pc, open, snap, response>>
       \/ /\ writeRes' = [writeRes EXCEPT ![c] = "err"]
          /\ console' = [console EXCEPT ![c] = "write_error"]
          /\ pc' = [pc EXCEPT ![c] = "closed"]
          /\ open' = [open EXCEPT ![c] = FALSE]
          /\ snap' = [snap EXCEPT ![c] = <<>>]
          /\ response' = [response EXCEPT ![c] = <<>>]
          /\ UNCHANGED delivered
    /\ writes' = [writes EXCEPT ![c] = @ + 1]
    /\ UsesStream(c)
    /\ UNCHANGED sampled
    /\ UNCHANGED <<mainVars, client, readVars>>

\* Mutant of HandleWriteSend: a failed write takes the whole process down,
\* the listener with it.
HandleWriteSendExitsOnErr(c) ==
    /\ pc[c] = "send"
    /\ \/ \E n \in WriteCounts(Len(response[c])) :
            /\ writeRes' = [writeRes EXCEPT ![c] = "ok"]
            /\ delivered' = [delivered EXCEPT ![c] =
                   IF n = Len(response[c]) THEN "complete" ELSE "partial"]
            /\ console' = [console EXCEPT ![c] = "sent"]
            /\ UNCHANGED <<mainpc, listener>>
       \/ /\ writeRes' = [writeRes EXCEPT ![c] = "err"]
          /\ console' = [console EXCEPT ![c] = "write_error"]
          /\ mainpc' = "exited"
          /\ listener' = "none"
          /\ UNCHANGED delivered
    /\ writes' = [writes EXCEPT ![c] = @ + 1]
    /\ UsesStream(c)
    /\ UNCHANGED sampled
    /\ snap' = [snap EXCEPT ![c] = <<>>]
    /\ response' = [response EXCEPT ![c] = <<>>]
    /\ open' = [open EXCEPT ![c] = FALSE]
    /\ pc' = [pc EXCEPT ![c] = "closed"]
    /\ UNCHANGED <<accepted, acceptErrs, lastAccept, spawned, client, readVars>>

\* Mutant of HandleWriteSend: the responses are written in the order in
\* which the connections were accepted.
HandleWriteSendInOrder(c) ==
    /\ pc[c] = "send"
    /\ \A b \in Conns : b < c => writes[b] = 1
    /\ \/ \E n \in WriteCounts(Len(response[c])) :
            /\ writeRes' = [writeRes EXCEPT ![c] = "ok"]
            /\ delivered' = [delivered EXCEPT ![c] =
                   IF n = Len(response[c]) THEN "complete" ELSE "partial"]
            /\ console' = [console EXCEPT ![c] = "sent"]
       \/ /\ writeRes' = [writeRes EXCEPT ![c] = "err"]
          /\ console' = [console EXCEPT ![c] = "write_error"]
          /\ UNCHANGED delivered
    /\ writes' = [writes EXCEPT ![c] = @ + 1]
    /\ UsesStream(c)
    /\ UNCHANGED sampled
    /\ snap' = [snap EXCEPT ![c] = <<>>]
    /\ response' = [response EXCEPT ![c] = <<>>]
    /\ open' = [open EXCEPT ![c] = FALSE]
    /\ pc' = [pc EXCEPT ![c] = "closed"]
    /\ UNCHANGED <<mainVars, client, readVars>>

\* handle_write, lines 60-64: the one stream.write, the match on its
\* result (Ok(_) prints "Response sent", Err(e) prints "Failed sending
\* response") and the return, where the locals go out of scope and the
\* stream is dropped.
HandleWriteSend(c) ==
    /\ pc[c] = "send"
    /\ \/ \E n \in WriteCounts(Len(response[c])) :
            /\ writeRes' = [writeRes EXCEPT ![c] = "ok"]
            /\ delivered' = [delivered EXCEPT ![c] =
                   IF n = Len(response[c]) THEN "complete" ELSE "partial"]
            /\ console' = [console EXCEPT ![c] = "sent"]
       \/ /\ writeRes' = [writeRes EXCEPT ![c] = "err"]
          /\ console' = [console EXCEPT ![c] = "write_error"]
          /\ UNCHANGED delivered
    /\ writes' = [writes EXCEPT ![c] = @ + 1]
    /\ UsesStream(c)
    /\ UNCHANGED sampled
    /\ snap' = [snap EXCEPT ![c] = <<>>]
    /\ response' = [response EXCEPT ![c] = <<>>]
    /\ open' = [open EXCEPT ![c] = FALSE]
    /\ pc' = [pc EXCEPT ![c] = "closed"]
    /\ UNCHANGED <<mainVars, client, readVars>>

Next ==
    \/ BindOk
    \/ BindFail
    \/ AcceptOk
    \/ AcceptErr
    \/ \E c \in Conns : ClientSend(c)
    \/ \E c \in Conns : ClientShutdown(c)
    \/ \E c \in Conns : ClientReset(c)
    \/ \E c \in Conns : HandleRead(c)
    \/ \E c \in Conns : HandleWriteBuild(c, Snapshots)
    \/ \E c \in Conns : HandleWriteSend(c)

Spec == Init /\ [][Next]_vars

\* Threads that can run are scheduled: a handler that can take its next
\* step eventually takes it.
FairSpec ==
    Spec /\ \A c \in Conns :
        /\ WF_vars(HandleRead(c))
        /\ WF_vars(HandleWriteBuild(c, Snapshots))
        /\ WF_vars(HandleWriteSend(c))

\* The server with its first connection alone, the handler sampling any
\* pair of MemValues: the runs that exercise the response builder.
NextBuild ==
    \/ BindOk
    \/ BindFail
    \/ accepted = 0 /\ AcceptOk
    \/ AcceptErr
    \/ ClientSend(1)
    \/ ClientShutdown(1)
    \/ ClientReset(1)
    \/ HandleRead(1)
    \/ HandleWriteBuild(1, MemValues \X MemValues)
    \/ HandleWriteSend(1)

BuildSpec == Init /\ [][NextBuild]_vars

(* ---------------------------------------------------------------------- *)
(* Reading a response as a client does.                                    *)
(* ---------------------------------------------------------------------- *)

\* Whether pat occurs in seq at place i.
OccursAt(seq, pat, i) ==
    /\ i + Len(pat) - 1 <= Len(seq)
    /\ \A k \in 1..Len(pat) : seq[i + k - 1] = pat[k]

\* The first place at or after i where pat occurs in seq (0 if there is
\* none).
RECURSIVE FirstFrom(_, _, _)
FirstFrom(seq, pat, i) ==
    IF i + Len(pat) - 1 > Len(seq) THEN 0
    ELSE IF OccursAt(seq, pat, i) THEN i
    ELSE FirstFrom(seq, pat, i + 1)

EmptyLine == <<13, 10, 13, 10>>

ContentLengthLine == <<13, 10>> \o ContentLengthName

\* The place of the first CR LF CR LF, the empty line that ends the header
\* (0 if there is none).
HeaderEnd(resp) == FirstFrom(resp, EmptyLine, 1)

\* The body: the bytes that follow the empty line.
BodyOf(resp) == SubSeq(resp, HeaderEnd(resp) + 4, Len(resp))

\* The bytes of the line that starts at place i, up to its CR.
RECURSIVE LineAt(_, _)
LineAt(seq, i) ==
    IF i > Len(seq) \/ seq[i] = 13 THEN <<>>
    ELSE <<seq[i]>> \o LineAt(seq, i + 1)

IsDigits(seq) ==
    seq # <<>> /\ \A i \in 1..Len(seq) : seq[i] >= 48 /\ seq[i] <= 57

RECURSIVE DecValue(_)
DecValue(digits) ==
    IF digits = <<>> THEN 0
    ELSE DecValue(SubSeq(digits, 1, Len(digits) - 1)) * 10
         + (digits[Len(digits)] - 48)

\* The text of the Content-Length header's value: what follows the header's
\* name on the line of the header that starts with it ("" if the header
\* has no such line).
ContentLengthText(resp) ==
    LET at == FirstFrom(resp, ContentLengthLine, 1) IN
        IF at = 0 \/ at > HeaderEnd(resp) THEN <<>>
        ELSE LineAt(resp, at + Len(ContentLengthLine))

HasResponse(c) == response[c] # <<>>

(* ---------------------------------------------------------------------- *)
(* Claims.                                                                 *)
(* ---------------------------------------------------------------------- *)

\* C1: for every accepted connection, whatever the read phase gave (bytes,
\* zero bytes after a half-close, malformed UTF-8, or an error), a write of
\* the response is then attempted on it, and no write is attempted before
\* the read phase has completed or failed.
C1_WriteFollowsRead ==
    /\ [](\A c \in Conns : writes[c] > 0 => readRes[c] # "none")
    /\ [][\A c \in Conns :
             writes'[c] # writes[c] => reads[c] = 1 /\ readRes[c] # "none"]_vars
    /\ \A c \in Conns : (readRes[c] # "none") ~> (writes[c] = 1)

\* A read error on one connection and a zero-byte read after a half-close
\* on another, each followed by its write.
C1_Witness ==
    \E c, d \in Conns :
        /\ readRes[c] = "err" /\ writes[c] = 1
        /\ readRes[d] = "ok" /\ client[d] = "shut" /\ writes[d] = 1

\* C2: in every response the write phase builds, for every snapshot, the
\* value of the Content-Length header is the number of bytes that follow
\* the empty line.
C2_ContentLengthIsBodyLength ==
    \A c \in Conns :
        HasResponse(c) =>
            LET value == ContentLengthText(response[c]) IN
                /\ HeaderEnd(response[c]) > 0
                /\ IsDigits(value)
                /\ DecValue(value) = Len(BodyOf(response[c]))

\* A response is built from a snapshot with a zero and a ten-digit value.
C2_Witness ==
    \E c \in Conns :
        /\ HasResponse(c)
        /\ snap[c] = <<2147483647, 0>>
        /\ Len(BodyOf(response[c])) = Len(ResponseBody(0, 0)) + 9

\* C3 (as stated): every connection receives a complete response: a handler
\* that has finished and whose write returned Ok has passed on every byte
\* of the status line, the headers and the body.
C3_FinishedHandlersDeliveredAll ==
    \A c \in Conns :
        (pc[c] = "closed" /\ writeRes[c] = "ok") => delivered[c] = "complete"

\* A handler is blocked in its read: its peer has neither sent nor closed.
Blocked(c) == pc[c] = "read" /\ client[c] = "silent"

\* C4: a handler blocked in its read holds up nothing but itself: the
\* dispatcher can still accept the next connection, and every other handler
\* can take its next step, whichever phase it is in.
C4_BlockedReadIsolated ==
    \A c \in Conns :
        Blocked(c) =>
            /\ (mainpc = "accept" /\ accepted < MaxConns) => ENABLED AcceptOk
            /\ \A d \in Conns \ {c} :
                /\ (pc[d] = "read" /\ client[d] # "silent")
                       => ENABLED HandleRead(d)
                /\ pc[d] = "write" => ENABLED HandleWriteBuild(d, Snapshots)
                /\ pc[d] = "send" => ENABLED HandleWriteSend(d)

\* The first connection is still blocked in its read when a connection
\* accepted after it has been read, answered and closed.
C4_Witness ==
    \E c, d \in Conns :
        /\ c < d
        /\ Blocked(c)
        /\ pc[d] = "closed" /\ reads[d] = 1 /\ writes[d] = 1

\* C5: a failed accept is reported, spawns no handler, leaves the listener
\* listening and the dispatcher in its loop; and whatever the number of
\* failures so far, the next connection is accepted and given to a handler.
C5_AcceptFailureContinues ==
    /\ [][AcceptErr =>
            /\ acceptErrs' = acceptErrs + 1
            /\ accepted' = accepted /\ pc' = pc /\ open' = open
            /\ listener' = "listening" /\ mainpc' = "accept"]_vars
    /\ [][(accepted' # accepted) =>
            /\ accepted' = accepted + 1
            /\ pc[accepted'] = "none" /\ pc'[accepted'] = "read"
            /\ open'[accepted']]_vars
    /\ []((mainpc = "accept" /\ accepted < MaxConns) => ENABLED AcceptOk)

\* An accept has failed, and the accept after it has given a connection
\* to a handler.
C5_Witness ==
    /\ acceptErrs >= 1
    /\ lastAccept = "ok"
    /\ \E c \in Conns : c = accepted /\ pc[c] # "none" /\ listener = "listening"

\* C6: when the bind fails the process ends at startup: it never enters the
\* accept loop, accepts no connection and spawns no handler.
C6_BindFailureIsFatal ==
    (mainpc # "bind" /\ listener = "none") =>
        /\ mainpc = "exited"
        /\ accepted = 0 /\ acceptErrs = 0 /\ lastAccept = "none"
        /\ \A c \in Conns : pc[c] = "none" /\ ~open[c]
        /\ ~ENABLED AcceptOk
        /\ ~ENABLED AcceptErr

\* The bind has failed.
C6_Witness == mainpc = "exited" /\ listener = "none"

\* C7: the handler returns after its one write whether it succeeded or
\* failed, the connection is closed when the handler ends on every path, and
\* no connection is open once its handler has finished.
C7_HandlerReturnsAndCloses ==
    /\ [](\A c \in Conns : open[c] <=> pc[c] \in {"read", "write", "send"})
    /\ [][\A c \in Conns :
             writes'[c] # writes[c] => pc'[c] = "closed" /\ ~open'[c]]_vars
    /\ \A c \in Conns : (readRes[c] # "none") ~> (pc[c] = "closed" /\ ~open[c])

\* A handler whose read failed and whose write failed has ended, its
\* connection closed; another ended after a read and a write that succeeded.
C7_Witness ==
    \E c, d \in Conns :
        /\ pc[c] = "closed" /\ readRes[c] = "err" /\ writeRes[c] = "err"
        /\ ~open[c]
        /\ pc[d] = "closed" /\ readRes[d] = "ok" /\ writeRes[d] = "ok"
        /\ ~open[d]

\* C8 (as stated): a write that passes on fewer bytes than the response is
\* reported as a failure, never as "Response sent".
C8_ShortWriteReportedAsFailure ==
    \A c \in Conns :
        (pc[c] = "closed" /\ delivered[c] = "partial")
            => console[c] = "write_error"

\* Whether seq starts with pre.
StartsWith(seq, pre) ==
    Len(seq) >= Len(pre) /\ SubSeq(seq, 1, Len(pre)) = pre

\* C9: the response does not depend on the request: handlers with the same
\* snapshot build the same bytes whatever they read, and every response
\* starts with the status line HTTP/1.1 200 OK.
C9_ResponseIndependentOfRequest ==
    \A c \in Conns :
        HasResponse(c) =>
            /\ StartsWith(response[c], StatusLine)
            /\ \A d \in Conns :
                (HasResponse(d) /\ snap[d] = snap[c])
                    => response[d] = response[c]

\* Two handlers hold a response built from the same snapshot, one after a
\* read error and one after a read that returned bytes.
C9_Witness ==
    \E c, d \in Conns :
        /\ HasResponse(c) /\ HasResponse(d) /\ snap[c] = snap[d]
        /\ readRes[c] = "err"
        /\ readRes[d] = "ok" /\ client[d] = "sent"

\* The state of connection c and of its handler.
ConnState(c) ==
    <<pc[c], client[c], open[c], reads[c], readRes[c], nread[c], buf[c],
      req_str[c], console[c], snap[c], response[c], writes[c], writeRes[c],
      delivered[c], handlers[c], users[c], sampled[c]>>

\* C10: a step in which a handler's read or write fails changes neither the
\* listener, nor the dispatcher, nor anything of another connection or its
\* handler.
C10_FailureStaysInHandler ==
    [][\A c \in Conns :
          (\/ reads'[c] # reads[c] /\ readRes'[c] = "err"
           \/ writes'[c] # writes[c] /\ writeRes'[c] = "err")
          => /\ UNCHANGED mainVars
             /\ \A d \in Conns \ {c} : ConnState(d)' = ConnState(d)]_vars

\* A handler's read and write have both failed while the dispatcher is in
\* its loop and another handler is at work on an open connection.
C10_Witness ==
    \E c, d \in Conns :
        /\ c # d
        /\ readRes[c] = "err" /\ writeRes[c] = "err"
        /\ open[d] /\ pc[d] \in {"write", "send"}
        /\ mainpc = "accept" /\ listener = "listening"

\* C11: each connection sees at most one read attempt in its whole life:
\* none before its handler has read, and exactly one from then on, whether
\* that read returned a few bytes, zero bytes or an error.
C11_AtMostOneRead ==
    \A c \in Conns :
        /\ reads[c] <= 1
        /\ pc[c] \in {"none", "read"} => reads[c] = 0
        /\ pc[c] \in {"write", "send", "closed"} => reads[c] = 1
        /\ reads[c] = 1 => ~ENABLED HandleRead(c)

\* One handler has ended after a read of zero bytes, another has moved on
\* after a read error, both after a single read.
C11_Witness ==
    \E c, d \in Conns :
        /\ pc[c] = "closed" /\ readRes[c] = "ok" /\ client[c] = "shut"
        /\ reads[c] = 1
        /\ pc[d] \in {"write", "send", "closed"} /\ readRes[d] = "err"
        /\ reads[d] = 1

\* C12: each connection sees at most one write attempt: once a write has
\* been made, whatever it returned, the connection is closed and its handler
\* can take no further step on it.
C12_AtMostOneWrite ==
    \A c \in Conns :
        /\ writes[c] <= 1
        /\ writes[c] = 1 =>
            /\ pc[c] = "closed" /\ ~open[c]
            /\ reads[c] = 1
            /\ ~ENABLED HandleRead(c)
            /\ ~ENABLED HandleWriteBuild(c, Snapshots)
            /\ ~ENABLED HandleWriteSend(c)

\* One handler has ended after a short write, another after a failed
\* write.
C12_Witness ==
    \E c, d \in Conns :
        /\ writes[c] = 1 /\ writeRes[c] = "ok" /\ delivered[c] = "partial"
        /\ writes[d] = 1 /\ writeRes[d] = "err"

\* C15: responses are not ordered by accept order: a handler that is ready
\* to write can write while a connection accepted before it has not been
\* written to.
C15_WritesNotInAcceptOrder ==
    \A c, d \in Conns :
        (c < d /\ pc[c] # "none" /\ writes[c] = 0 /\ pc[d] = "send")
            => ENABLED HandleWriteSend(d)

\* The response of a later connection has been written, that of an
\* earlier one has not.
C15_Witness ==
    \E c, d \in Conns :
        /\ c < d
        /\ pc[c] \in {"read", "write", "send"} /\ writes[c] = 0
        /\ writes[d] = 1 /\ pc[d] = "closed"

\* C16 (as stated): after a read that returned Ok(n), the request text
\* printed is the lossy decoding of the n bytes received and holds nothing
\* of the rest of the buffer.
C16_LoggedTextIsReceivedBytes ==
    \A c \in Conns :
        (pc[c] = "write" /\ readRes[c] = "ok") =>
            /\ console[c] = "request"
            /\ req_str[c] = Utf8Lossy(SubSeq(buf[c], 1, nread[c]))

\* C17: once the bind has succeeded the listener stays listening and the
\* dispatcher stays in its loop, whatever a handler's read or write gives
\* and however many accepts fail.
C17_ListenerStaysListening ==
    /\ [](listener = "listening" <=> mainpc = "accept")
    /\ [][listener = "listening"
             => listener' = "listening" /\ mainpc' = "accept"]_vars
    /\ []((accepted > 0 \/ acceptErrs > 0) => listener = "listening")

\* The listener is listening after a failed accept, a handler whose read
\* and write failed, and a handler that ended normally.
C17_Witness ==
    /\ listener = "listening" /\ mainpc = "accept"
    /\ acceptErrs >= 1
    /\ \E c, d \in Conns :
        /\ pc[c] = "closed" /\ readRes[c] = "err" /\ writeRes[c] = "err"
        /\ pc[d] = "closed" /\ readRes[d] = "ok" /\ writeRes[d] = "ok"

\* C13: every accepted connection is given to exactly one handler thread,
\* no thread handles two connections, and only that thread ever reads,
\* writes or drops the connection's stream: never the dispatcher, never
\* another handler.
C13_ConnectionOwnedByItsHandler ==
    \A c \in Conns :
        /\ pc[c] = "none" => handlers[c] = {} /\ users[c] = {}
        /\ pc[c] # "none" => Cardinality(handlers[c]) = 1
        /\ users[c] \subseteq handlers[c]
        /\ MainThread \notin users[c]
        /\ (reads[c] > 0 \/ writes[c] > 0 \/ pc[c] = "closed")
               => users[c] = handlers[c]
        /\ \A d \in Conns \ {c} :
               handlers[c] \cap handlers[d] = {} /\ users[c] \cap handlers[d] = {}

\* Two connections have been read, written and closed, each by its own
\* handler thread.
C13_Witness ==
    \E c, d \in Conns :
        /\ c # d
        /\ pc[c] = "closed" /\ pc[d] = "closed"
        /\ users[c] = handlers[c] /\ users[d] = handlers[d]
        /\ users[c] # users[d] /\ users[c] # {} /\ users[d] # {}

\* C14: each handler samples the statistics exactly once, in its write
\* phase after its read has ended, and builds its response from that sample
\* alone; nothing another handler has sampled limits what it samples, so
\* two connections may be answered with different values.
C14_FreshSnapshotPerResponse ==
    \A c \in Conns :
        /\ sampled[c] <= 1
        /\ sampled[c] = 1 <=> pc[c] \in {"send", "closed"}
        /\ sampled[c] = 1 => reads[c] = 1 /\ readRes[c] # "none"
        /\ HasResponse(c) =>
            /\ snap[c] \in Snapshots
            /\ response[c] = Response(snap[c][1], snap[c][2])
        /\ pc[c] = "write" =>
            \A s \in Snapshots : ENABLED HandleWriteBuild(c, {s})

\* Two handlers that read the same request (zero bytes, then end of
\* stream) hold responses built from different snapshots.
C14_Witness ==
    \E c, d \in Conns :
        /\ client[c] = "shut" /\ client[d] = "shut"
        /\ readRes[c] = "ok" /\ readRes[d] = "ok"
        /\ HasResponse(c) /\ HasResponse(d)
        /\ sampled[c] = 1 /\ sampled[d] = 1
        /\ snap[c] # snap[d] /\ response[c] # response[d]

====
